---- MODULE Spec2Model ----
(***************************************************************************)
(* go-mod-upgrade (src/main.go): discovery of module updates, rendering of *)
(* the version delta, width-aware interactive selection, and the update    *)
(* loop.  Strings are sequences of one-character strings; a styled string  *)
(* is a sequence of segments [fld, st, tx] (the field a Fprintf writes,    *)
(* the colour function applied, the text).                                 *)
(***************************************************************************)
EXTENDS Integers, Sequences, FiniteSets, TLC

VARIABLES
    pc,         \* position in main: "main","discovered","choose","prompt","update","exit"
    list,       \* discover: raw output of `go list` (dead after discover returns)
    modules,    \* main: modules returned by discover
    err,        \* main: error returned by discover
    termWidth,  \* choose: width returned by terminal.GetSize
    termErr,    \* choose: whether terminal.GetSize returned an error
    options,    \* choose: option strings handed to survey.MultiSelect
    prompted,   \* whether survey.AskOne has been called
    choice,     \* choose: indices returned by survey.AskOne
    updates,    \* modules returned by choose, the argument of update
    idx,        \* update: number of loop iterations completed
    calls,      \* `go get` invocations so far: <<[name, ok]>>
    exitCode,   \* process exit code (-1 while running)
    askErr,     \* choose: the error survey.AskOne returned ("none","interrupt","other")
    msg,        \* last informational message printed by main or choose
    fpc,        \* rendering harness: "in" / "out"
    fmod,       \* rendering harness: the Module rendered
    flen,       \* rendering harness: the length argument of formatName
    outName,    \* rendering harness: formatName(fmod, flen)
    outTo       \* rendering harness: formatTo(fmod)

vars == <<pc, list, modules, err, termWidth, termErr, options, prompted, askErr,
          choice, updates, idx, calls, exitCode, msg, fpc, fmod, flen, outName, outTo>>

pipeVars == <<pc, list, modules, err, termWidth, termErr, options, prompted,
              askErr, choice, updates, idx, calls, exitCode, msg>>

fmtVars == <<fpc, fmod, flen, outName, outTo>>

----------------------------------------------------------------------------
(* Bounds *)

MaxLines == 3
MaxWidth == 41
MaxNum == 1
MaxPad == 3

----------------------------------------------------------------------------
(* Characters and numbers *)

Digit == {"0", "1", "2", "3", "4", "5", "6", "7", "8", "9"}

DigitVal(c) ==
    CASE c = "0" -> 0 [] c = "1" -> 1 [] c = "2" -> 2 [] c = "3" -> 3
      [] c = "4" -> 4 [] c = "5" -> 5 [] c = "6" -> 6 [] c = "7" -> 7
      [] c = "8" -> 8 [] c = "9" -> 9

DigitChar(n) ==
    CASE n = 0 -> "0" [] n = 1 -> "1" [] n = 2 -> "2" [] n = 3 -> "3"
      [] n = 4 -> "4" [] n = 5 -> "5" [] n = 6 -> "6" [] n = 7 -> "7"
      [] n = 8 -> "8" [] n = 9 -> "9"

Letter == {"a", "b", "c", "d", "e", "f", "g", "h", "i", "j", "k", "l", "m",
           "n", "o", "p", "q", "r", "s", "t", "u", "v", "w", "x", "y", "z"}

RECURSIVE ParseUint(_)
ParseUint(s) ==
    IF Len(s) = 0 THEN 0
    ELSE 10 * ParseUint(SubSeq(s, 1, Len(s) - 1)) + DigitVal(s[Len(s)])

RECURSIVE Itoa(_)
Itoa(n) ==
    IF n < 10 THEN <<DigitChar(n)>>
    ELSE Itoa(n \div 10) \o <<DigitChar(n % 10)>>

Repeat(c, n) == [i \in 1..n |-> c]

IndexOf(s, c) ==
    IF \E i \in 1..Len(s) : s[i] = c
    THEN CHOOSE i \in 1..Len(s) : s[i] = c /\ \A j \in 1..(i - 1) : s[j] # c
    ELSE 0

RECURSIVE Split(_, _)
Split(s, sep) ==
    LET k == IndexOf(s, sep) IN
    IF k = 0 THEN <<s>>
    ELSE <<SubSeq(s, 1, k - 1)>> \o Split(SubSeq(s, k + 1, Len(s)), sep)

max(x, y) == IF x > y THEN x ELSE y

padRight(str, length) ==
    IF Len(str) >= length THEN str
    ELSE str \o Repeat(" ", length - Len(str))

----------------------------------------------------------------------------
(* semver.Version, semver.NewVersion and Version.String of the library     *)
(* Masterminds/semver/v3, as called by discover and choose.                *)

Nil == [kind |-> "nil"]

IsDigits(s) == Len(s) > 0 /\ \A i \in 1..Len(s) : s[i] \in Digit

\* [0-9A-Za-z\-]+(\.[0-9A-Za-z\-]+)*
IsIdents(s) ==
    /\ Len(s) > 0
    /\ \A i \in 1..Len(s) : s[i] \in Digit \cup Letter \cup {"-", "."}
    /\ s[1] # "." /\ s[Len(s)] # "."
    /\ \A i \in 1..(Len(s) - 1) : ~(s[i] = "." /\ s[i + 1] = ".")

NewVersion(v) ==
    LET body == IF Len(v) > 0 /\ v[1] = "v" THEN SubSeq(v, 2, Len(v)) ELSE v
        p == IndexOf(body, "+")
        core == IF p = 0 THEN body ELSE SubSeq(body, 1, p - 1)
        meta == IF p = 0 THEN <<>> ELSE SubSeq(body, p + 1, Len(body))
        d == IndexOf(core, "-")
        nums == IF d = 0 THEN core ELSE SubSeq(core, 1, d - 1)
        pre == IF d = 0 THEN <<>> ELSE SubSeq(core, d + 1, Len(core))
        parts == Split(nums, ".")
        ok == /\ Len(parts) \in 1..3
              /\ \A i \in 1..Len(parts) : IsDigits(parts[i])
              /\ (d # 0 => IsIdents(pre))
              /\ (p # 0 => IsIdents(meta))
    IN IF ~ok THEN Nil
       ELSE [kind |-> "version",
             major |-> ParseUint(parts[1]),
             minor |-> IF Len(parts) >= 2 THEN ParseUint(parts[2]) ELSE 0,
             patch |-> IF Len(parts) >= 3 THEN ParseUint(parts[3]) ELSE 0,
             pre |-> pre,
             metadata |-> meta,
             original |-> v]

String(v) ==
    Itoa(v.major) \o <<".">> \o Itoa(v.minor) \o <<".">> \o Itoa(v.patch)
      \o (IF v.pre # <<>> THEN <<"-">> \o v.pre ELSE <<>>)
      \o (IF v.metadata # <<>> THEN <<"+">> \o v.metadata ELSE <<>>)

----------------------------------------------------------------------------
(* regexp `'(.+): (.+) -> (.+)'` and FindStringSubmatch: the leftmost      *)
(* match, each group greedy in turn; <<>> when the line has no match.      *)

At(x, i, w) == i >= 1 /\ i + Len(w) - 1 <= Len(x) /\ SubSeq(x, i, i + Len(w) - 1) = w

Positions(x, w) == {i \in 1..Len(x) : At(x, i, w)}

\* a: opening quote, c: ": ", r: " -> ", e: closing quote; every group non-empty
IsMatch(x, a, c, r, e) ==
    /\ At(x, a, <<"'">>)
    /\ c > a + 1 /\ At(x, c, <<":", " ">>)
    /\ r > c + 2 /\ At(x, r, <<" ", "-", ">", " ">>)
    /\ e > r + 4 /\ At(x, e, <<"'">>)

Max(S) == CHOOSE m \in S : \A n \in S : n <= m

Min(S) == CHOOSE m \in S : \A n \in S : m <= n

FindStringSubmatch(x) ==
    LET Q == Positions(x, <<"'">>)
        C == Positions(x, <<":", " ">>)
        R == Positions(x, <<" ", "-", ">", " ">>)
        As == {a \in Q : \E c \in C, r \in R, e \in Q : IsMatch(x, a, c, r, e)}
    IN IF As = {} THEN <<>>
       ELSE LET a == Min(As)
                c == Max({c1 \in C : \E r \in R, e \in Q : IsMatch(x, a, c1, r, e)})
                r == Max({r1 \in R : \E e \in Q : IsMatch(x, a, c, r1, e)})
                e == Max({e1 \in Q : IsMatch(x, a, c, r, e1)})
            IN <<SubSeq(x, a, e), SubSeq(x, a + 1, c - 1),
                 SubSeq(x, c + 2, r - 1), SubSeq(x, r + 4, e - 1)>>

----------------------------------------------------------------------------
(* discover *)

Sentinel == <<"'", "'">>

SkippedEmptyOnly(x) == ~(x # <<>>)

Skipped(x) == ~(x # Sentinel /\ x # <<>>)

Module(name, from, to) == [name |-> name, from |-> from, to |-> to]

Errorf(x) == [kind |-> "errorf", prefix |-> "Couldn't parse module ", line |-> x]

InvalidSemVer == [kind |-> "semver"]

ExitError == [kind |-> "exec"]

RECURSIVE DiscoverLoopSkipBad(_, _, _)
DiscoverLoopSkipBad(split, k, acc) ==
    IF k > Len(split) THEN [modules |-> acc, err |-> Nil]
    ELSE LET x == split[k] IN
         IF Skipped(x) THEN DiscoverLoopSkipBad(split, k + 1, acc)
         ELSE LET matched == FindStringSubmatch(x) IN
              IF Len(matched) < 4 THEN DiscoverLoopSkipBad(split, k + 1, acc)
              ELSE LET fromversion == NewVersion(matched[3])
                       toversion == NewVersion(matched[4])
                   IN IF fromversion = Nil THEN [modules |-> <<>>, err |-> InvalidSemVer]
                      ELSE IF toversion = Nil THEN [modules |-> <<>>, err |-> InvalidSemVer]
                      ELSE DiscoverLoopSkipBad(split, k + 1,
                               Append(acc, Module(matched[2], fromversion, toversion)))

RECURSIVE DiscoverLoop(_, _, _)
DiscoverLoop(split, k, acc) ==
    IF k > Len(split) THEN [modules |-> acc, err |-> Nil]
    ELSE LET x == split[k] IN
         IF Skipped(x) THEN DiscoverLoop(split, k + 1, acc)
         ELSE LET matched == FindStringSubmatch(x) IN
              IF Len(matched) < 4 THEN [modules |-> <<>>, err |-> Errorf(x)]
              ELSE LET fromversion == NewVersion(matched[3])
                       toversion == NewVersion(matched[4])
                   IN IF fromversion = Nil THEN [modules |-> <<>>, err |-> InvalidSemVer]
                      ELSE IF toversion = Nil THEN [modules |-> <<>>, err |-> InvalidSemVer]
                      ELSE DiscoverLoop(split, k + 1,
                               Append(acc, Module(matched[2], fromversion, toversion)))

discover(out, cmdOk) ==
    IF ~cmdOk THEN [modules |-> <<>>, err |-> ExitError]
    ELSE DiscoverLoop(Split(out, "\n"), 1, <<>>)

----------------------------------------------------------------------------
(* formatName, formatFrom, formatTo *)

Seg(fld, st, tx) == [fld |-> fld, st |-> st, tx |-> tx]

formatNameFirstMatch(module, length) ==
    LET from == module.from
        to == module.to
        c == IF from.minor # to.minor THEN "yellow"
             ELSE IF from.patch # to.patch THEN "green"
             ELSE IF from.pre # to.pre THEN "red"
             ELSE "white"
    IN Seg("name", c, padRight(module.name, length))

formatName(module, length) ==
    LET from == module.from
        to == module.to
        c0 == "white"
        c1 == IF from.minor # to.minor THEN "yellow" ELSE c0
        c2 == IF from.patch # to.patch THEN "green" ELSE c1
        c3 == IF from.pre # to.pre THEN "red" ELSE c2
    IN Seg("name", c3, padRight(module.name, length))

formatFrom(from, length) == Seg("from", "blue", padRight(String(from), length))

formatToPerField(module) ==
    LET from == module.from
        to == module.to
        hl(b) == IF b THEN "none" ELSE "green"
    IN <<Seg("major", hl(from.major = to.major), Itoa(to.major)), Seg("sep", "none", <<".">>),
         Seg("minor", hl(from.minor = to.minor), Itoa(to.minor)),
         Seg("sep", hl(from.minor = to.minor), <<".">>),
         Seg("patch", hl(from.patch = to.patch), Itoa(to.patch))>>
       \o (IF to.pre # <<>>
           THEN <<Seg("sep", "none", <<"-">>),
                  Seg("prerelease", hl(from.pre = to.pre), to.pre)>>
           ELSE <<>>)
       \o (IF to.metadata # <<>>
           THEN <<Seg("sep", hl(from.metadata = to.metadata), <<"+">>),
                  Seg("metadata", hl(from.metadata = to.metadata), to.metadata)>>
           ELSE <<>>)

formatToFrom(module, same0) ==
    LET from == module.from
        to == module.to
        buf1 == <<Seg("major", "none", Itoa(to.major)), Seg("sep", "none", <<".">>)>>
        eqMinor == from.minor = to.minor
        buf2 == buf1 \o (IF eqMinor
                         THEN <<Seg("minor", "none", Itoa(to.minor)), Seg("sep", "none", <<".">>)>>
                         ELSE <<Seg("minor", "green", Itoa(to.minor)), Seg("sep", "green", <<".">>)>>)
        same1 == IF eqMinor THEN same0 ELSE FALSE
        eqPatch == from.patch = to.patch /\ same1
        buf3 == buf2 \o (IF eqPatch
                         THEN <<Seg("patch", "none", Itoa(to.patch))>>
                         ELSE <<Seg("patch", "green", Itoa(to.patch))>>)
        same2 == IF eqPatch THEN same1 ELSE FALSE
        buf4 == buf3 \o (IF to.pre # <<>>
                         THEN (IF from.pre = to.pre /\ same2
                               THEN <<Seg("sep", "none", <<"-">>), Seg("prerelease", "none", to.pre)>>
                               ELSE <<Seg("sep", "none", <<"-">>), Seg("prerelease", "green", to.pre)>>)
                         ELSE <<>>)
        buf5 == buf4 \o (IF to.metadata # <<>>
                         THEN <<Seg("sep", "green", <<"+">>), Seg("metadata", "green", to.metadata)>>
                         ELSE <<>>)
    IN buf5

formatToSameFalse(module) == formatToFrom(module, FALSE)

formatTo(module) == formatToFrom(module, TRUE)

----------------------------------------------------------------------------
(* Inputs: the lines `go list` may print, and its whole output *)

\* 'github.com: 1.2.3-rc -> 1.3.0-rc'
LineMinor ==
    <<"'","g","i","t","h","u","b",".","c","o","m",":"," ","1",".","2",".","3","-","r","c"," ","-",">"," ","1",".","3",".","0","-","r","c","'">>

\* 'a: v1.2 -> 1.2.3+m'
LineShort ==
    <<"'","a",":"," ","v","1",".","2"," ","-",">"," ","1",".","2",".","3","+","m","'">>

\* go 'x: y: 1.2.3 -> 2.0.0'
LineLoose ==
    <<"g","o"," ","'","x",":"," ","y",":"," ","1",".","2",".","3"," ","-",">"," ","2",".","0",".","0","'">>

\* 'a: 1.2.3 1.3.0'
LineNoArrow ==
    <<"'","a",":"," ","1",".","2",".","3"," ","1",".","3",".","0","'">>

\* 'a: x -> 1.3.0'
LineBadVersion ==
    <<"'","a",":"," ","x"," ","-",">"," ","1",".","3",".","0","'">>

\* a: 1.2.3 -> 1.3.0
LineNoQuotes ==
    <<"a",":"," ","1",".","2",".","3"," ","-",">"," ","1",".","3",".","0">>

Lines == {<<>>, Sentinel, LineMinor, LineShort, LineLoose, LineNoArrow,
          LineBadVersion, LineNoQuotes}

RECURSIVE Join(_)
Join(ls) == IF Len(ls) = 0 THEN <<>> ELSE Head(ls) \o <<"\n">> \o Join(Tail(ls))

Listings == {Join(ls) : ls \in UNION {[1..k -> Lines] : k \in 0..MaxLines}}

\* the index sequences survey.AskOne may return for n options
Selections(n) ==
    {s \in UNION {[1..k -> 1..n] : k \in 0..n} :
        \A i \in DOMAIN s, j \in DOMAIN s : i # j => s[i] # s[j]}

----------------------------------------------------------------------------
(* choose *)

Front(ms) == SubSeq(ms, 1, Len(ms) - 1)

RECURSIVE maxName(_)
maxName(ms) ==
    IF Len(ms) = 0 THEN 0 ELSE max(maxName(Front(ms)), Len(ms[Len(ms)].name))

RECURSIVE maxFrom(_)
maxFrom(ms) ==
    IF Len(ms) = 0 THEN 0 ELSE max(maxFrom(Front(ms)), Len(String(ms[Len(ms)].from)))

RECURSIVE maxTo(_)
maxTo(ms) ==
    IF Len(ms) = 0 THEN 0 ELSE max(maxTo(Front(ms)), Len(String(ms[Len(ms)].to)))

ShowFromGeq(w, ms) == w >= maxName(ms) + maxFrom(ms) + maxTo(ms) + 11

ShowFrom(w, ms) == w > maxName(ms) + maxFrom(ms) + maxTo(ms) + 11

Option(x, w, ms) ==
    <<formatName(x, maxName(ms)), Seg("sep", "none", <<" ">>)>>
      \o (IF ShowFrom(w, ms) THEN <<formatFrom(x.from, maxFrom(ms))>> ELSE <<>>)
      \o <<Seg("sep", "none", <<" ", "-", ">", " ">>)>>
      \o formatTo(x)

Options(w, ms) == [k \in 1..Len(ms) |-> Option(ms[k], w, ms)]

----------------------------------------------------------------------------
(* main: discover, choose, update *)

Init ==
    /\ pc = "main"
    /\ list = <<>>
    /\ modules = <<>>
    /\ err = Nil
    /\ termWidth = 0
    /\ termErr = FALSE
    /\ options = <<>>
    /\ prompted = FALSE
    /\ askErr = "none"
    /\ choice = <<>>
    /\ updates = <<>>
    /\ idx = 0
    /\ calls = <<>>
    /\ exitCode = -1
    /\ msg = ""
    /\ fpc = "in"
    /\ fmod = Nil
    /\ flen = 0
    /\ outName = Nil
    /\ outTo = <<>>

Discover ==
    /\ pc = "main"
    /\ \E out \in Listings, cmdOk \in BOOLEAN :
         LET r == discover(out, cmdOk) IN
         /\ list' = out
         /\ modules' = r.modules
         /\ err' = r.err
    /\ pc' = "discovered"
    /\ UNCHANGED <<termWidth, termErr, options, prompted, askErr, choice, updates,
                   idx, calls, exitCode, msg>>
    /\ UNCHANGED fmtVars

MainFatal ==
    /\ pc = "discovered"
    /\ err # Nil
    /\ pc' = "exit"
    /\ exitCode' = 1
    /\ list' = <<>>
    /\ UNCHANGED <<modules, err, termWidth, termErr, options, prompted, askErr,
                   choice, updates, idx, calls, msg>>
    /\ UNCHANGED fmtVars

MainUpToDate ==
    /\ pc = "discovered"
    /\ err = Nil
    /\ ~(Len(modules) > 0)
    /\ msg' = "All modules are up to date"
    /\ pc' = "exit"
    /\ exitCode' = 0
    /\ list' = <<>>
    /\ UNCHANGED <<modules, err, termWidth, termErr, options, prompted, askErr,
                   choice, updates, idx, calls>>
    /\ UNCHANGED fmtVars

MainChooseAlways ==
    /\ pc = "discovered"
    /\ err = Nil
    /\ pc' = "choose"
    /\ list' = <<>>
    /\ UNCHANGED <<modules, err, termWidth, termErr, options, prompted, askErr,
                   choice, updates, idx, calls, exitCode, msg>>
    /\ UNCHANGED fmtVars

MainChoose ==
    /\ pc = "discovered"
    /\ err = Nil
    /\ Len(modules) > 0
    /\ pc' = "choose"
    /\ list' = <<>>
    /\ UNCHANGED <<modules, err, termWidth, termErr, options, prompted, askErr,
                   choice, updates, idx, calls, exitCode, msg>>
    /\ UNCHANGED fmtVars

\* terminal.GetSize, then the option strings
ChooseRender ==
    /\ pc = "choose"
    /\ \E e \in BOOLEAN :
         \E w \in (IF e THEN {-1, 0} ELSE 0..MaxWidth) :
            /\ termErr' = e
            /\ termWidth' = w
            /\ options' = Options(w, modules)
    /\ pc' = "prompt"
    /\ UNCHANGED <<list, modules, err, prompted, askErr, choice, updates, idx,
                   calls, exitCode, msg>>
    /\ UNCHANGED fmtVars

\* survey.AskOne returns a selection; choose maps it to modules and returns
AskOne ==
    /\ pc = "prompt"
    /\ prompted' = TRUE
    /\ \E sel \in Selections(Len(options)) :
         /\ choice' = sel
         /\ updates' = [k \in 1..Len(sel) |-> modules[sel[k]]]
    /\ termWidth' = 0
    /\ termErr' = FALSE
    /\ options' = <<>>
    /\ idx' = 0
    /\ pc' = "update"
    /\ UNCHANGED <<list, modules, err, askErr, calls, exitCode, msg>>
    /\ UNCHANGED fmtVars

AskOneInterruptAsEmpty ==
    /\ pc = "prompt"
    /\ prompted' = TRUE
    /\ askErr' = "interrupt"
    /\ choice' = <<>>
    /\ updates' = <<>>
    /\ idx' = 0
    /\ pc' = "update"
    /\ UNCHANGED <<list, modules, err, termWidth, termErr, options, calls,
                   exitCode, msg>>
    /\ UNCHANGED fmtVars

\* survey.AskOne returns term.InterruptErr
AskOneInterrupt ==
    /\ pc = "prompt"
    /\ prompted' = TRUE
    /\ askErr' = "interrupt"
    /\ msg' = "Bye"
    /\ pc' = "exit"
    /\ exitCode' = 0
    /\ UNCHANGED <<list, modules, err, termWidth, termErr, options, choice,
                   updates, idx, calls>>
    /\ UNCHANGED fmtVars

\* survey.AskOne returns another error
AskOneError ==
    /\ pc = "prompt"
    /\ prompted' = TRUE
    /\ askErr' = "other"
    /\ pc' = "exit"
    /\ exitCode' = 1
    /\ UNCHANGED <<list, modules, err, termWidth, termErr, options, choice,
                   updates, idx, calls, msg>>
    /\ UNCHANGED fmtVars

UpdateStepAbort ==
    /\ pc = "update"
    /\ idx < Len(updates)
    /\ \E ok \in BOOLEAN :
         /\ calls' = Append(calls, [name |-> updates[idx + 1].name, ok |-> ok])
         /\ IF ok THEN pc' = "update" /\ exitCode' = exitCode
                  ELSE pc' = "exit" /\ exitCode' = 1
    /\ idx' = idx + 1
    /\ UNCHANGED <<list, modules, err, termWidth, termErr, options, prompted,
                   askErr, choice, updates, msg>>
    /\ UNCHANGED fmtVars

\* one iteration of update's loop: `go get x.name` succeeds or fails
UpdateStep ==
    /\ pc = "update"
    /\ idx < Len(updates)
    /\ \E ok \in BOOLEAN :
         calls' = Append(calls, [name |-> updates[idx + 1].name, ok |-> ok])
    /\ idx' = idx + 1
    /\ UNCHANGED <<pc, list, modules, err, termWidth, termErr, options, prompted,
                   askErr, choice, updates, exitCode, msg>>
    /\ UNCHANGED fmtVars

\* update's loop ends, update and main return
UpdateReturn ==
    /\ pc = "update"
    /\ ~(idx < Len(updates))
    /\ pc' = "exit"
    /\ exitCode' = 0
    /\ UNCHANGED <<list, modules, err, termWidth, termErr, options, prompted,
                   askErr, choice, updates, idx, calls, msg>>
    /\ UNCHANGED fmtVars

Next ==
    \/ Discover
    \/ MainFatal
    \/ MainUpToDate
    \/ MainChoose
    \/ ChooseRender
    \/ AskOne
    \/ AskOneInterrupt
    \/ AskOneError
    \/ UpdateStep
    \/ UpdateReturn

Spec == Init /\ [][Next]_vars

----------------------------------------------------------------------------
(* Rendering harness: formatName and formatTo applied to one Module *)

Pres == {<<>>, <<"r", "c">>}

Metas == {<<>>, <<"m">>}

VersionTexts ==
    {Itoa(a) \o <<".">> \o Itoa(b) \o <<".">> \o Itoa(c)
       \o (IF p # <<>> THEN <<"-">> \o p ELSE <<>>)
       \o (IF m # <<>> THEN <<"+">> \o m ELSE <<>>) :
     a \in 0..MaxNum, b \in 0..MaxNum, c \in 0..MaxNum, p \in Pres, m \in Metas}

Versions == {NewVersion(t) : t \in VersionTexts}

FmtInit ==
    /\ pc = "main"
    /\ list = <<>>
    /\ modules = <<>>
    /\ err = Nil
    /\ termWidth = 0
    /\ termErr = FALSE
    /\ options = <<>>
    /\ prompted = FALSE
    /\ askErr = "none"
    /\ choice = <<>>
    /\ updates = <<>>
    /\ idx = 0
    /\ calls = <<>>
    /\ exitCode = -1
    /\ msg = ""
    /\ fpc = "in"
    /\ \E f \in Versions, t \in Versions : fmod = Module(<<"a", "b">>, f, t)
    /\ flen \in 0..MaxPad
    /\ outName = Nil
    /\ outTo = <<>>

Format ==
    /\ fpc = "in"
    /\ fpc' = "out"
    /\ outName' = formatName(fmod, flen)
    /\ outTo' = formatTo(fmod)
    /\ UNCHANGED <<fmod, flen>>
    /\ UNCHANGED pipeVars

FmtNext == Format

FmtSpec == FmtInit /\ [][FmtNext]_vars

----------------------------------------------------------------------------
(* Properties of the update loop and of the pipeline (checked under Spec)   *)

Names(ms) == [k \in 1..Len(ms) |-> ms[k].name]

CallNames == [k \in 1..Len(calls) |-> calls[k].name]

InUpdate == prompted /\ askErr = "none" /\ pc \in {"update", "exit"}

\* C1: update invokes `go get` once per selected module, in the order of the
\* sequence, whatever the outcome of each invocation: while the loop runs the
\* invocations made are the names of the first idx modules, a further
\* iteration is always possible after a failure, and the program ends with
\* exit code 0 only after an invocation for every module.
C1_UpdateAttemptsEveryModule ==
    InUpdate =>
        /\ Len(calls) = idx
        /\ idx <= Len(updates)
        /\ CallNames = SubSeq(Names(updates), 1, idx)
        /\ (pc = "update" /\ idx < Len(updates) => ENABLED UpdateStep)
        /\ (pc = "update" => exitCode = -1)
        /\ (pc = "exit" => idx = Len(updates) /\ exitCode = 0)

\* the scenario of three selected modules whose second `go get` fails
C1_Witness ==
    /\ pc = "exit"
    /\ Len(calls) = 3
    /\ calls[1].ok /\ ~calls[2].ok /\ calls[3].ok

\* C2: when survey.AskOne reports an interrupt the program ends with exit
\* code 0, without a selection and without any `go get` invocation.
C2_InterruptExitsClean ==
    askErr = "interrupt" =>
        /\ pc = "exit"
        /\ exitCode = 0
        /\ updates = <<>>
        /\ calls = <<>>

C2_Witness == askErr = "interrupt" /\ Len(modules) >= 2 /\ pc = "exit"

\* C10: `go get` is invoked only after survey.AskOne returned a selection, and
\* only with the names of the modules at the returned indices, in the
\* returned order; when discover fails the program exits non-zero, when it
\* finds no module the program exits 0 with a message, and in both cases
\* neither survey.AskOne nor `go get` is invoked.
C10_PipelineSafety ==
    /\ (calls # <<>> => InUpdate)
    /\ (InUpdate =>
          /\ \A k \in 1..Len(choice) : choice[k] \in 1..Len(modules)
          /\ updates = [k \in 1..Len(choice) |-> modules[choice[k]]]
          /\ \A k \in 1..Len(calls) : calls[k].name = modules[choice[k]].name)
    /\ (prompted => err = Nil /\ Len(modules) > 0)
    /\ (pc # "main" /\ (err # Nil \/ Len(modules) = 0) =>
          /\ ~prompted /\ options = <<>> /\ calls = <<>>
          /\ pc \in {"discovered", "exit"})
    /\ (pc = "exit" /\ err # Nil => exitCode # 0)
    /\ (pc = "exit" /\ err = Nil /\ Len(modules) = 0 =>
          exitCode = 0 /\ msg = "All modules are up to date")

C10_Witness ==
    /\ pc = "exit"
    /\ choice = <<3, 1>>
    /\ Len(calls) = 2
    /\ modules[3].name # modules[1].name

----------------------------------------------------------------------------
(* Properties of discover (checked under Spec, in the state it returns to)  *)

\* discover has run and `go list` itself succeeded
Discovered == pc = "discovered" /\ err # ExitError

OutLines == Split(list, "\n")

Meaningful(x) == x # <<>> /\ x # Sentinel

\* the line holds '<name>: <from> -> <to>' with non-empty name, from and to
MatchesPattern(x) ==
    \E a \in 1..Len(x), c \in Positions(x, <<":", " ">>),
       r \in Positions(x, <<" ", "-", ">", " ">>), e \in Positions(x, <<"'">>) :
        IsMatch(x, a, c, r, e)

Malformed(x) == Meaningful(x) /\ ~MatchesPattern(x)

\* the line matches and the versions the program reads from it are valid
ValidLine(x) ==
    /\ MatchesPattern(x)
    /\ LET m == FindStringSubmatch(x)
       IN NewVersion(m[3]) # Nil /\ NewVersion(m[4]) # Nil

Occurs(x, w) == Positions(x, w) # {}

\* C3 as stated: every malformed line makes discover fail with an error
\* naming that line and with zero records, whatever lines surround it.
C3_EveryMalformedLineNamed ==
    Discovered =>
        \A k \in 1..Len(OutLines) :
            Malformed(OutLines[k]) =>
                /\ modules = <<>>
                /\ err = Errorf(OutLines[k])

\* C3 amended: a malformed line anywhere makes discover fail with zero
\* records (it is never skipped); the error names the first malformed line
\* when every meaningful line before it is well-formed with valid versions,
\* and is the version error of an earlier line otherwise.
C3_MalformedLineAborts ==
    Discovered =>
        \A k \in 1..Len(OutLines) :
            Malformed(OutLines[k]) =>
                /\ modules = <<>>
                /\ err # Nil
                /\ ((\A j \in 1..(k - 1) :
                        Meaningful(OutLines[j]) => ValidLine(OutLines[j]))
                      => err = Errorf(OutLines[k]))
                /\ ((\E j \in 1..(k - 1) :
                        /\ MatchesPattern(OutLines[j]) /\ ~ValidLine(OutLines[j])
                        /\ \A i \in 1..(j - 1) : ~Malformed(OutLines[i]))
                      => err = InvalidSemVer)

\* a malformed line between two well-formed lines
C3_Witness ==
    /\ Discovered
    /\ Len(OutLines) >= 3
    /\ ValidLine(OutLines[1])
    /\ Malformed(OutLines[2])
    /\ ValidLine(OutLines[3])
    /\ err = Errorf(OutLines[2])

MeaningfulLines == SelectSeq(OutLines, Meaningful)

\* the text '<name>: <from> -> <to>' a record was read from
RecordText(m) ==
    <<"'">> \o m.name \o <<":", " ">> \o m.from.original
      \o <<" ", "-", ">", " ">> \o m.to.original \o <<"'">>

\* C4: when every line of the output is empty, the sentinel, or well-formed
\* with valid versions, discover succeeds with one record per well-formed
\* line, in the order of the lines, each holding the name and the two
\* versions written on its line; empty and sentinel lines add nothing.
C4_OneRecordPerLine ==
    (Discovered /\ \A k \in 1..Len(OutLines) :
                      Meaningful(OutLines[k]) => ValidLine(OutLines[k]))
    => /\ err = Nil
       /\ Len(modules) = Len(MeaningfulLines)
       /\ \A k \in 1..Len(modules) :
            LET m == modules[k]
                x == MeaningfulLines[k]
            IN /\ m.name # <<>>
               /\ Occurs(x, RecordText(m))
               /\ m.from = NewVersion(m.from.original) /\ m.from # Nil
               /\ m.to = NewVersion(m.to.original) /\ m.to # Nil
               /\ (x = LineShort =>
                     /\ m.name = <<"a">>
                     /\ String(m.from) = <<"1", ".", "2", ".", "0">>
                     /\ String(m.to) = <<"1", ".", "2", ".", "3", "+", "m">>)
               /\ (x = LineLoose =>
                     /\ m.name = <<"x", ":", " ", "y">>
                     /\ String(m.from) = <<"1", ".", "2", ".", "3">>
                     /\ String(m.to) = <<"2", ".", "0", ".", "0">>)

\* two records around a sentinel line and an empty line
C4_Witness ==
    /\ Discovered
    /\ OutLines = <<LineLoose, Sentinel, LineShort, <<>>>>
    /\ Len(modules) = 2
    /\ modules[2].name = <<"a">>

----------------------------------------------------------------------------
(* Properties of choose (checked under Spec, at the prompt)                 *)

HasFrom(opt) == \E k \in 1..Len(opt) : opt[k].fld = "from"

WidestName == Max({Len(m.name) : m \in {modules[k] : k \in 1..Len(modules)}})

WidestFrom == Max({Len(String(m.from)) : m \in {modules[k] : k \in 1..Len(modules)}})

WidestTo == Max({Len(String(m.to)) : m \in {modules[k] : k \in 1..Len(modules)}})

\* C5: every option string carries the from-version column if and only if
\* the width query succeeded and the width exceeds the sum of the three
\* column maxima plus 11; after a failed query the column is hidden and the
\* selection is still offered.
C5_FromColumnRule ==
    pc = "prompt" =>
        /\ Len(options) = Len(modules)
        /\ \A k \in 1..Len(options) :
             HasFrom(options[k]) <=>
                (~termErr /\ termWidth > WidestName + WidestFrom + WidestTo + 11)
        /\ (termErr => ENABLED AskOne)

\* the column maxima 10/8/8 on a terminal 40 columns wide
C5_Witness ==
    /\ pc = "prompt"
    /\ WidestName = 10 /\ WidestFrom = 8 /\ WidestTo = 8
    /\ ~termErr /\ termWidth = 40
    /\ \A k \in 1..Len(options) : HasFrom(options[k])

----------------------------------------------------------------------------
(* Properties of formatName and formatTo (checked under FmtSpec)            *)

Rendered == fpc = "out"

MajorDiffers == fmod.from.major # fmod.to.major

MinorDiffers == fmod.from.minor # fmod.to.minor

PatchDiffers == fmod.from.patch # fmod.to.patch

PreDiffers == fmod.from.pre # fmod.to.pre

\* the colour in which formatTo wrote the field
FieldSt(fld) == LET k == CHOOSE k \in 1..Len(outTo) : outTo[k].fld = fld IN outTo[k].st

HasField(fld) == \E k \in 1..Len(outTo) : outTo[k].fld = fld

Plain(fld) == FieldSt(fld) = "none"

\* C6 as stated: a differing minor with an equal prerelease gives the name
\* the minor colour, and a differing prerelease alone gives it the
\* prerelease colour.
C6_MinorStylingWhenMinorDiffers ==
    Rendered =>
        /\ (MinorDiffers /\ ~PreDiffers => outName.st = "yellow")
        /\ (~MajorDiffers /\ ~MinorDiffers /\ ~PatchDiffers /\ PreDiffers
              => outName.st = "red")

\* C6 amended: a differing minor with an equal prerelease gives the name the
\* minor colour only when the patch is equal too, and the patch colour when
\* the patch differs as well (as in 1.2.3-beta -> 1.3.0-beta); a differing
\* prerelease alone gives it the prerelease colour.
C6_MinorStylingNeedsEqualPatch ==
    Rendered =>
        /\ (MinorDiffers /\ ~PatchDiffers /\ ~PreDiffers => outName.st = "yellow")
        /\ (MinorDiffers /\ PatchDiffers /\ ~PreDiffers => outName.st = "green")
        /\ (~MajorDiffers /\ ~MinorDiffers /\ ~PatchDiffers /\ PreDiffers
              => outName.st = "red")

\* minor and patch differ under an equal, non-empty prerelease
C6_Witness ==
    /\ Rendered
    /\ MinorDiffers /\ PatchDiffers /\ ~PreDiffers /\ fmod.to.pre # <<>>
    /\ outName.st = "green"

\* C7: the name's colour is that of the last of the checks minor, patch,
\* prerelease that finds a difference, and the default colour when none of
\* the three does, whether or not the major differs; the text is the name
\* padded to the given length.
C7_LastMatchWins ==
    Rendered =>
        /\ outName.st = (IF PreDiffers THEN "red"
                         ELSE IF PatchDiffers THEN "green"
                         ELSE IF MinorDiffers THEN "yellow"
                         ELSE "white")
        /\ Len(outName.tx) = (IF Len(fmod.name) >= flen THEN Len(fmod.name) ELSE flen)
        /\ SubSeq(outName.tx, 1, Len(fmod.name)) = fmod.name

\* only the major differs and the name keeps the default colour
C7_Witness ==
    /\ Rendered
    /\ MajorDiffers /\ ~MinorDiffers /\ ~PatchDiffers /\ ~PreDiffers
    /\ outName.st = "white"

NoHighlight == \A k \in 1..Len(outTo) : outTo[k].st = "none"

\* C8 as stated: rendering the to-version of a record whose versions are
\* identical highlights nothing, build metadata included.
C8_IdenticalVersionsNoHighlight ==
    (Rendered /\ fmod.from = fmod.to) => NoHighlight

\* C8 amended: rendering the to-version of a record whose versions are
\* identical highlights nothing when the version carries no build metadata;
\* when it does, the "+" and the metadata, and nothing else, are highlighted.
C8_IdenticalVersionsHighlightOnlyMetadata ==
    (Rendered /\ fmod.from = fmod.to) =>
        /\ (fmod.to.metadata = <<>> => NoHighlight)
        /\ \A k \in 1..Len(outTo) :
             outTo[k].st = "green" <=>
                (fmod.to.metadata # <<>> /\ k \in {Len(outTo) - 1, Len(outTo)})

\* identical versions with a prerelease and no metadata
C8_Witness ==
    /\ Rendered
    /\ fmod.from = fmod.to
    /\ fmod.to.pre # <<>> /\ fmod.to.metadata = <<>>
    /\ HasField("prerelease") /\ NoHighlight

\* C9 as stated: each of major, minor, patch and prerelease is written plain
\* exactly when it is unchanged, also after an earlier changed field.
C9_EachFieldByItsOwnChange ==
    Rendered =>
        /\ (Plain("major") <=> ~MajorDiffers)
        /\ (Plain("minor") <=> ~MinorDiffers)
        /\ (Plain("patch") <=> ~PatchDiffers)
        /\ (HasField("prerelease") => (Plain("prerelease") <=> ~PreDiffers))

\* C9 amended: the major is always written plain; the minor is plain exactly
\* when unchanged; the patch is plain exactly when minor and patch are both
\* unchanged; the prerelease, written when non-empty, is plain exactly when
\* minor, patch and prerelease are all unchanged; every other case is
\* highlighted, so an unchanged field after a changed one is highlighted.
C9_FieldsHighlightedAfterFirstChange ==
    Rendered =>
        /\ Plain("major")
        /\ (Plain("minor") <=> ~MinorDiffers)
        /\ (Plain("patch") <=> (~MinorDiffers /\ ~PatchDiffers))
        /\ (HasField("prerelease") <=> fmod.to.pre # <<>>)
        /\ (HasField("prerelease") =>
              (Plain("prerelease") <=> (~MinorDiffers /\ ~PatchDiffers /\ ~PreDiffers)))
        /\ \A f \in {"major", "minor", "patch"} : FieldSt(f) \in {"none", "green"}

\* an unchanged patch and prerelease, highlighted after a changed minor
C9_Witness ==
    /\ Rendered
    /\ MinorDiffers /\ ~PatchDiffers /\ ~PreDiffers
    /\ HasField("prerelease")
    /\ FieldSt("patch") = "green" /\ FieldSt("prerelease") = "green"

====
